---- MODULE Spec2Model ----
(***************************************************************************)
(* A model of DKNNLinfAttack (src/lib/dknn_attack_linf.py): one call of    *)
(* __call__ as a state machine, with the guide selectors, the inner        *)
(* optimisation loop and the per-sample binary search over the penalty     *)
(* constant.                                                               *)
(*                                                                         *)
(* Numbers.  const, lower_bound and upper_bound are held in fixed point,   *)
(* in units of 1/Scale with Scale = 10^MaxSteps, so that the divisions by  *)
(* 10 and by 2 of at most MaxSteps rounds are exact.  INFTY stands for the *)
(* source's 1e20: it lies above every constant the search can reach from   *)
(* InitConsts in MaxSteps rounds, as 1e20 does for the source's defaults.  *)
(*                                                                         *)
(* Tensors.  An input has one abstract coordinate.  The perturbation       *)
(* z_delta[i] is 0 (zero), 1 (non-zero, the candidate stays within the 0.1 *)
(* slack of x_recon) or 2 (the candidate leaves the slack); the candidate  *)
(* is x[i] = ToModelSpace(z_delta[i]).                                     *)
(*                                                                         *)
(* The oracle (dknn) is outside the source: what it returns is drawn anew  *)
(* at every call, and the calls are counted.                               *)
(***************************************************************************)
EXTENDS Integers, Sequences, FiniteSets

\* ------------------------------------------------------------- bounds
MaxSteps == 3        \* binary_search_steps ranges over 0..MaxSteps
MaxBatch == 2        \* the largest batch
MaxIter == 11        \* the largest max_iterations
NTrain == 3          \* the largest training set
MaxK == 3            \* the largest guide-set size m (k)
MaxDist == 1         \* neighbour distances range over 0..MaxDist (in DistUnit)
MaxCalls == 2        \* the oracle call counters are clipped here

ClassCounts == {2, 3}    \* the values of dknn.num_classes explored
InitConsts == {0, 1, 3}
LossVals == {0, 9999, 10000}
IterChoices == {0, 2, MaxIter}

\* ---------------------------------------------------------- constants
INFTY == 2000000000
Unbound == -1
XOrig == 0
XRecon == 1
Slack == 1
NaN == -2

Scale == 10 ^ MaxSteps
ZDeltas == {0, 1, 2}

VARIABLES
    \* the arguments of __call__ and the oracle's training labels
    batch_size, label, m, binary_search_steps, max_iterations, initial_const,
    abort_early, random_start, guide_mode, y_train, num_classes,
    \* the locals of __call__
    x_adv, const, lower_bound, upper_bound, x_guide, guide_reps,
    binary_search_step, z_delta, loss_at_previous_check, opt_steps, iteration,
    x, loss, l2dist, is_adv,
    \* the local nearest_label of find_guide_samples, per row
    nearest_label,
    \* control: the position in __call__ and the exception raised, if any
    pc, err,
    \* the number of calls made to each oracle method
    calls,
    \* history: whether some round's success check reported x[i] adversarial
    ever_adv

inputs == <<batch_size, label, m, binary_search_steps, max_iterations,
            initial_const, abort_early, random_start, guide_mode, y_train,
            num_classes>>
search == <<x_adv, const, lower_bound, upper_bound>>
guides == <<x_guide, guide_reps, nearest_label>>
inner == <<z_delta, loss_at_previous_check, opt_steps, iteration, x, loss, l2dist>>
vars == <<inputs, search, guides, inner, binary_search_step, is_adv, pc, err,
          calls, ever_adv>>

Batch == 0 .. (batch_size - 1)
Classes == 0 .. (num_classes - 1)

Min(a, b) == IF a < b THEN a ELSE b

\* ------------------------------------------------ the guide selectors

\* Distances are counted in units of 1/DistUnit, so that the mean of up to
\* MaxK of them (np.mean) is an integer.
Fact[n \in Nat] == IF n = 0 THEN 1 ELSE n * Fact[n - 1]
DistUnit == Fact[MaxK]

\* The rankings get_neighbors(x, k = |x_train|) can return for one row: the
\* training indices in some order, with ascending distances.
Rankings ==
    [n \in 1 .. NTrain |->
        {p \in [1 .. n -> 1 .. n] : \A a, b \in 1 .. n : p[a] = p[b] => a = b}]
Distances ==
    [n \in 1 .. NTrain |->
        {[j \in 1 .. n |-> DistUnit * f[j]] :
            f \in {g \in [1 .. n -> 0 .. MaxDist] :
                      \A j \in 1 .. (n - 1) : g[j] <= g[j + 1]}}]

\* np.where(dknn.y_train[ind] == c)[0]: the rank positions holding class c
Where(ind, c) ==
    LET T(p) == y_train[ind[p]] = c
    IN  SelectSeq([p \in 1 .. Len(ind) |-> p], T)

\* s[:k]
Take(s, k) == SubSeq(s, 1, Min(k, Len(s)))

RECURSIVE SumAt(_, _)
SumAt(d, pos) == IF pos = <<>> THEN 0 ELSE d[Head(pos)] + SumAt(d, Tail(pos))

\* np.mean(d[pos]); the mean of an empty slice is nan
Mean(d, pos) == IF pos = <<>> THEN NaN ELSE SumAt(d, pos) \div Len(pos)

\* a faulty variant: the true label's mean distance is left as it is
Inflate_Forgotten(v) == v

\* mean_dist[label[i]] += INFTY (nan + INFTY is nan)
Inflate(v) == IF v = NaN THEN NaN ELSE v + INFTY

\* mean_dist of one row, after the true label's entry was inflated
MeanDist(d, ind, lab, k) ==
    [c \in Classes |->
        LET v == Mean(d, Take(Where(ind, c), k))
        IN  IF c = lab THEN Inflate(v) ELSE v]

\* numpy's argmin: the first nan if there is one, else the first minimum
ArgMin(md) ==
    LET nans == {c \in Classes : md[c] = NaN}
        least == {c \in Classes : \A e \in Classes : md[c] <= md[e]}
        First(S) == CHOOSE c \in S : \A e \in S : c <= e
    IN  IF nans # {} THEN First(nans) ELSE First(least)

\* nn[i] = vals, where nn[i] holds k samples: the value is broadcast to the
\* target's shape, which works when it holds k samples or a single one (then
\* repeated k times) and raises a RuntimeError otherwise.
AssignRow(k, vals) ==
    IF Len(vals) = k THEN [ok |-> TRUE, nn |-> vals]
    ELSE IF Len(vals) = 1 THEN [ok |-> TRUE, nn |-> [j \in 1 .. k |-> vals[1]]]
    ELSE [ok |-> FALSE, nn |-> <<>>]

\* dknn.x_train[ind[nn_ind]], the training samples at the rank positions nn_ind
Gather(ind, nn_ind) == [j \in 1 .. Len(nn_ind) |-> ind[nn_ind[j]]]

\* one pass of the loop of find_guide_samples
GuideRow(d, ind, lab, k) ==
    LET nearest == ArgMin(MeanDist(d, ind, lab, k))
        nn_ind == Take(Where(ind, nearest), k)
        row == AssignRow(k, Gather(ind, nn_ind))
    IN  [nearest |-> nearest, ok |-> row.ok, nn |-> row.nn]

\* one pass of the loop of find_nn_same_class, for the anchor ind_x
SameClassRow(ind, ind_x, k) ==
    LET nn_ind == Take(Where(ind, y_train[ind_x]), k)
    IN  AssignRow(k, Gather(ind, nn_ind))

\* dknn.find_nn_diff_class(x, label), for one row: a training sample whose
\* label differs from the true label (which one is nearest is the oracle's)
NNDiffClass(lab) == {t \in 1 .. Len(y_train) : y_train[t] # lab}

\* ------------------------------------------------- the attack: helpers

\* one more call counted; the counters stop at MaxCalls
Bump(c) == IF c < MaxCalls THEN c + 1 ELSE c

RECURSIVE BumpN(_, _)
BumpN(c, n) == IF n = 0 THEN c ELSE BumpN(Bump(c), n - 1)

\* a faulty variant: the training set is ranked before the mode is looked at
GuideCalls_RankFirst(mode, c) ==
    IF mode = 2
        THEN [c EXCEPT !.find_nn_diff_class = Bump(@), !.get_neighbors = Bump(@)]
        ELSE [c EXCEPT !.get_neighbors = Bump(@)]

\* The oracle calls made by the guide selection of lines 123-130: mode 1
\* ranks the training set once (find_guide_samples), mode 2 asks for the
\* nearest sample of another class and ranks once (find_guide_samples_v2,
\* find_nn_same_class), any other mode raises before calling anything.
GuideCalls(mode, c) ==
    IF mode = 1 THEN [c EXCEPT !.get_neighbors = Bump(@)]
    ELSE IF mode = 2
        THEN [c EXCEPT !.find_nn_diff_class = Bump(@), !.get_neighbors = Bump(@)]
        ELSE c

\* to_model_space(z_orig + z_delta), by the class of z_delta: x_recon for a
\* zero z_delta, further from it for the larger classes
ToModelSpace(zd) == XRecon + zd

\* the second result of loss_function for one sample: dist.sqrt(), which is
\* positive exactly when the candidate leaves the slack around x_recon
L2Dist(xi) == IF xi - XRecon > Slack THEN 1 ELSE 0

\* np.ceil(max_iterations / 10)
Ceil10(n) == (n + 9) \div 10

\* iteration % np.ceil(max_iterations / 10) == 0
IsCheckpoint(it, n) == it % Ceil10(n) = 0

\* torch.gt(l, .9999 * prev), that is 10000 * l > 9999 * prev, evaluated
\* through the quotient and remainder of prev by 10000 to stay in range
Gt9999(l, prev) ==
    LET q == prev \div 10000
        r == prev % 10000
        e == l - 9999 * q
    IN  IF e <= 0 THEN FALSE
        ELSE IF e >= 10000 THEN TRUE
        ELSE 10000 * e > 9999 * r

\* a faulty variant: any loss above the previous checkpoint's aborts, without the
\* .9999 margin
ShouldAbort_NoMargin(l, prev) == l > prev

\* the test of line 178
ShouldAbort(l, prev) == Gt9999(l, prev)

\* check_adv for one sample: y_pred != label, as a float
CheckAdv(pred, lab) == IF pred # lab THEN 1 ELSE 0

\* a faulty variant: the upper bound is lowered in every round
NewUpper_Always(l2, c, ub) == c

\* lines 188-191: the new bounds of one sample
NewLower(l2, c, lb) == IF l2 > 0 THEN c ELSE lb
NewUpper(l2, c, ub) == IF l2 > 0 THEN ub ELSE c

\* a faulty variant: the candidate is committed without asking whether it is
\* adversarial
NewXAdv_Unchecked(l2, adv, xi, xa) == IF ~(l2 > 0) THEN xi ELSE xa

\* a faulty variant: an adversarial candidate is committed whatever its penalty
NewXAdv_AnyDist(l2, adv, xi, xa) == IF adv # 0 THEN xi ELSE xa

\* lines 188-193: the new best adversarial example of one sample
NewXAdv(l2, adv, xi, xa) == IF ~(l2 > 0) /\ adv # 0 THEN xi ELSE xa

\* a faulty variant: no bisection, the constant keeps shrinking tenfold
NextConst_NoBisect(c, lb, ub) == IF ub = INFTY THEN c * 10 ELSE c \div 10

\* a faulty variant: the bisection forgets to halve
NextConst_NoHalf(c, lb, ub) ==
    IF ub = INFTY THEN c * 10
    ELSE IF lb = 0 THEN c \div 10
    ELSE lb + ub

\* lines 195-203: the next constant of one sample, from its new bounds
NextConst(c, lb, ub) ==
    IF ub = INFTY THEN c * 10
    ELSE IF lb = 0 THEN c \div 10
    ELSE (lb + ub) \div 2

\* a faulty variant: the perturbation, the optimiser and the checkpoint loss are set up
\* once, before the first round, and carried over to the later ones
FreshLocals_Once(rs) ==
    IF binary_search_step = Unbound
    THEN {[z_delta |-> zd, loss_at_previous_check |-> INFTY, opt_steps |-> 0] :
            zd \in IF rs THEN [Batch -> ZDeltas] ELSE {[i \in Batch |-> 0]}}
    ELSE {[z_delta |-> z_delta, loss_at_previous_check |-> loss_at_previous_check,
           opt_steps |-> opt_steps]}

\* lines 147-156: what a round starts from: z_delta (zero, or noise under
\* random_start), the checkpoint loss, and a new optimiser that has taken
\* no step
FreshLocals(rs) ==
    {[z_delta |-> zd, loss_at_previous_check |-> INFTY, opt_steps |-> 0] :
        zd \in IF rs THEN [Batch -> ZDeltas] ELSE {[i \in Batch |-> 0]}}

\* ---------------------------------------------------------------- Init

NoCalls == [classify |-> 0, get_activations |-> 0, get_neighbors |-> 0,
            find_nn_diff_class |-> 0]

\* lines 73-118, which call nothing of the oracle; the locals bound later
\* are Unbound
InitLocals ==
    /\ x_adv = [i \in Batch |-> XOrig]
    /\ const = [i \in Batch |-> initial_const * Scale]
    /\ lower_bound = [i \in Batch |-> 0]
    /\ upper_bound = [i \in Batch |-> INFTY]
    /\ x_guide = [i \in Batch |-> <<>>]
    /\ guide_reps = [i \in Batch |-> <<>>]
    /\ nearest_label = [i \in Batch |-> Unbound]
    /\ binary_search_step = Unbound
    /\ z_delta = [i \in Batch |-> Unbound]
    /\ loss_at_previous_check = Unbound
    /\ opt_steps = Unbound
    /\ iteration = Unbound
    /\ x = [i \in Batch |-> Unbound]
    /\ loss = Unbound
    /\ l2dist = [i \in Batch |-> Unbound]
    /\ is_adv = [i \in Batch |-> Unbound]
    /\ pc = "guides"
    /\ err = "none"
    /\ calls = NoCalls
    /\ ever_adv = [i \in Batch |-> FALSE]

\* two classes, one training sample of each
TwoSamples == <<0, 1>>

\* The calls explored.  The search calls run the binary search of one sample
\* with one optimiser step a round; the batch calls run one round on a full
\* batch; the loop calls run the inner loop on one sample; the guide calls
\* select guides over every training set.
SearchCall ==
    /\ batch_size = 1
    /\ label = [i \in {0} |-> 0]
    /\ m = 1
    /\ num_classes = 2
    /\ y_train = TwoSamples
    /\ binary_search_steps \in 0 .. MaxSteps
    /\ max_iterations = 1
    /\ initial_const \in InitConsts
    /\ abort_early = FALSE
    /\ random_start = TRUE
    /\ guide_mode = 1

BatchCall ==
    /\ batch_size = MaxBatch
    /\ label = [i \in 0 .. (MaxBatch - 1) |-> i % 2]
    /\ m = 1
    /\ num_classes = 2
    /\ y_train = TwoSamples
    /\ binary_search_steps = 1
    /\ max_iterations = 1
    /\ initial_const = 1
    /\ abort_early = FALSE
    /\ random_start = TRUE
    /\ guide_mode = 1

LoopCall ==
    /\ batch_size = 1
    /\ label = [i \in {0} |-> 0]
    /\ m = 1
    /\ num_classes = 2
    /\ y_train = TwoSamples
    /\ binary_search_steps \in {1, 2}
    /\ max_iterations \in IterChoices
    /\ initial_const = 1
    /\ abort_early \in BOOLEAN
    /\ random_start \in BOOLEAN
    /\ guide_mode \in {1, 2, 3}

GuideCall ==
    /\ batch_size = 1
    /\ num_classes \in ClassCounts
    /\ label \in [{0} -> Classes]
    /\ m \in 1 .. MaxK
    /\ y_train \in [1 .. NTrain -> Classes]
    /\ binary_search_steps = 0
    /\ max_iterations = 1
    /\ initial_const = 1
    /\ abort_early = TRUE
    /\ random_start = FALSE
    /\ guide_mode \in {1, 2}

Init == (SearchCall \/ BatchCall \/ LoopCall \/ GuideCall) /\ InitLocals

\* ------------------------------------------------------------- actions

\* lines 123-125, 241-261: guide_mode 1
ChooseGuidesMode1 ==
    /\ pc = "guides"
    /\ guide_mode = 1
    /\ \E D \in [Batch -> Distances[Len(y_train)]],
          I \in [Batch -> Rankings[Len(y_train)]] :
        LET rows == [i \in Batch |-> GuideRow(D[i], I[i], label[i], m)]
            bad == {i \in Batch : ~rows[i].ok}
            first == CHOOSE i \in bad : \A j \in bad : i <= j
        IN  IF bad = {}
            THEN /\ x_guide' = [i \in Batch |-> rows[i].nn]
                 /\ nearest_label' = [i \in Batch |-> rows[i].nearest]
                 /\ pc' = "guide_reps"
                 /\ err' = err
            ELSE /\ x_guide' = x_guide
                 /\ nearest_label' =
                        [i \in Batch |-> IF i <= first THEN rows[i].nearest ELSE Unbound]
                 /\ pc' = "error"
                 /\ err' = "RuntimeError"
    /\ calls' = GuideCalls(guide_mode, calls)
    /\ UNCHANGED <<inputs, search, guide_reps, inner, binary_search_step, is_adv,
                   ever_adv>>

\* lines 126-128, 263-291: guide_mode 2.  The oracle is asked for a sample of
\* another class than the input's; the step is taken only when the training
\* set holds one.
ChooseGuidesMode2 ==
    /\ pc = "guides"
    /\ guide_mode = 2
    /\ \E nn \in [Batch -> 1 .. Len(y_train)],
          I \in [Batch -> Rankings[Len(y_train)]] :
        /\ \A i \in Batch : nn[i] \in NNDiffClass(label[i])
        /\ LET rows == [i \in Batch |-> SameClassRow(I[i], nn[i], m)]
               bad == {i \in Batch : ~rows[i].ok}
           IN  IF bad = {}
               THEN /\ x_guide' = [i \in Batch |-> rows[i].nn]
                    /\ pc' = "guide_reps"
                    /\ err' = err
               ELSE /\ x_guide' = x_guide
                    /\ pc' = "error"
                    /\ err' = "RuntimeError"
    /\ calls' = GuideCalls(guide_mode, calls)
    /\ UNCHANGED <<inputs, search, guide_reps, nearest_label, inner,
                   binary_search_step, is_adv, ever_adv>>

\* lines 129-130: any other guide_mode
InvalidMode ==
    /\ pc = "guides"
    /\ guide_mode \notin {1, 2}
    /\ pc' = "error"
    /\ err' = "ValueError"
    /\ calls' = GuideCalls(guide_mode, calls)
    /\ UNCHANGED <<inputs, search, guides, inner, binary_search_step, is_adv,
                   ever_adv>>

\* lines 132-143: the representations of the guides, one oracle call a sample
ComputeGuideReps ==
    /\ pc = "guide_reps"
    /\ guide_reps' = [i \in Batch |-> [j \in 1 .. m |-> <<"rep", x_guide[i][j]>>]]
    /\ calls' = [calls EXCEPT !.get_activations =
                    BumpN(@, batch_size)]
    /\ pc' = "loop"
    /\ UNCHANGED <<inputs, search, x_guide, nearest_label, inner,
                   binary_search_step, is_adv, err, ever_adv>>

\* lines 145-156: a round begins
RoundStart ==
    /\ pc = "loop"
    /\ binary_search_step + 1 < binary_search_steps
    /\ binary_search_step' = binary_search_step + 1
    /\ \E fresh \in FreshLocals(random_start) :
        /\ z_delta' = fresh.z_delta
        /\ loss_at_previous_check' = fresh.loss_at_previous_check
        /\ opt_steps' = fresh.opt_steps
    /\ iteration' = 0
    /\ pc' = "inner"
    /\ UNCHANGED <<inputs, search, guides, x, loss, l2dist, is_adv, err, calls,
                   ever_adv>>

\* lines 159-180: one iteration of the inner loop
Iterate ==
    /\ pc = "inner"
    /\ iteration < max_iterations
    /\ x' = [i \in Batch |-> ToModelSpace(z_delta[i])]
    /\ l2dist' = [i \in Batch |-> L2Dist(x'[i])]
    /\ loss' \in LossVals
    /\ z_delta' \in [Batch -> ZDeltas]
    /\ opt_steps' = opt_steps + 1
    /\ calls' = [calls EXCEPT !.get_activations = Bump(@)]
    /\ IF abort_early /\ IsCheckpoint(iteration, max_iterations)
       THEN IF ShouldAbort(loss', loss_at_previous_check)
            THEN /\ pc' = "check_adv"
                 /\ UNCHANGED <<iteration, loss_at_previous_check>>
            ELSE /\ loss_at_previous_check' = loss'
                 /\ iteration' = iteration + 1
                 /\ pc' = pc
       ELSE /\ iteration' = iteration + 1
            /\ UNCHANGED <<pc, loss_at_previous_check>>
    /\ UNCHANGED <<inputs, search, guides, binary_search_step, is_adv, err, ever_adv>>

\* line 159: the inner loop has run max_iterations times
LoopExit ==
    /\ pc = "inner"
    /\ iteration = max_iterations
    /\ pc' = "check_adv"
    /\ UNCHANGED <<inputs, search, guides, inner, binary_search_step, is_adv, err,
                   calls, ever_adv>>

\* lines 183-184: the success check on the round's candidate
CheckSuccess ==
    /\ pc = "check_adv"
    /\ \A i \in Batch : x[i] # Unbound
    /\ \E y_pred \in [Batch -> Classes] :
        is_adv' = [i \in Batch |-> CheckAdv(y_pred[i], label[i])]
    /\ ever_adv' = [i \in Batch |-> ever_adv[i] \/ is_adv'[i] # 0]
    /\ calls' = [calls EXCEPT !.classify = Bump(@)]
    /\ pc' = "update"
    /\ UNCHANGED <<inputs, search, guides, inner, binary_search_step, err>>

\* line 184 when the inner loop never ran (max_iterations = 0): x is unbound
CheckUnbound ==
    /\ pc = "check_adv"
    /\ \E i \in Batch : x[i] = Unbound
    /\ pc' = "error"
    /\ err' = "UnboundLocalError"
    /\ UNCHANGED <<inputs, search, guides, inner, binary_search_step, is_adv,
                   calls, ever_adv>>

\* lines 186-209: the bounds, the best example and the constant of every
\* sample, then the success rate of x_adv for the log
UpdateRound ==
    /\ pc = "update"
    /\ lower_bound' =
        [i \in Batch |-> NewLower(l2dist[i], const[i], lower_bound[i])]
    /\ upper_bound' =
        [i \in Batch |-> NewUpper(l2dist[i], const[i], upper_bound[i])]
    /\ x_adv' = [i \in Batch |-> NewXAdv(l2dist[i], is_adv[i], x[i], x_adv[i])]
    /\ const' =
        [i \in Batch |-> NextConst(const[i], lower_bound'[i], upper_bound'[i])]
    /\ \E y_pred \in [Batch -> Classes] :
        is_adv' = [i \in Batch |-> CheckAdv(y_pred[i], label[i])]
    /\ calls' = [calls EXCEPT !.classify = Bump(@)]
    /\ pc' = "loop"
    /\ UNCHANGED <<inputs, guides, inner, binary_search_step, err, ever_adv>>

\* line 211
Return ==
    /\ pc = "loop"
    /\ binary_search_step + 1 >= binary_search_steps
    /\ pc' = "done"
    /\ UNCHANGED <<inputs, search, guides, inner, binary_search_step, is_adv, err,
                   calls, ever_adv>>

Next ==
    \/ ChooseGuidesMode1
    \/ ChooseGuidesMode2
    \/ InvalidMode
    \/ ComputeGuideReps
    \/ RoundStart
    \/ Iterate
    \/ LoopExit
    \/ CheckSuccess
    \/ CheckUnbound
    \/ UpdateRound
    \/ Return

Spec == Init /\ [][Next]_vars

\* ---------------------------------------------------------- properties

\* 10000 * l = 9999 * prev, in range
Eq9999(l, prev) == prev % 10000 = 0 /\ l = 9999 * (prev \div 10000)

\* the number of training samples of class c
ClassSize(c) == Cardinality({t \in 1 .. Len(y_train) : y_train[t] = c})

\* the elements of a sequence
Range(g) == {g[j] : j \in DOMAIN g}

\* C1: a returned batch holds the original input for every sample whose
\* success check failed in every round, and for every sample when
\* binary_search_steps is 0.
C1_FallbackToOriginal ==
    pc = "done" =>
        \A i \in Batch :
            (binary_search_steps = 0 \/ ~ever_adv[i]) => x_adv[i] = XOrig

\* a call of at least two rounds has returned; one sample met the penalty
\* constraint in some round but was never adversarial, and holds its original
C1_Witness ==
    /\ pc = "done"
    /\ binary_search_steps >= 2
    /\ \E i \in Batch :
        ~ever_adv[i] /\ upper_bound[i] # INFTY /\ x_adv[i] = XOrig

\* C2: x_adv[i] changes only in the update of a round whose success check
\* reported x[i] adversarial and whose penalty l2dist[i] is not above 0, and
\* then it becomes that candidate x[i]; every other step leaves it alone.
C2_NoRegression ==
    [][\A i \in Batch :
        x_adv'[i] # x_adv[i] =>
            /\ pc = "update"
            /\ is_adv[i] # 0
            /\ ~(l2dist[i] > 0)
            /\ x_adv'[i] = x[i]]_vars

\* a round after the first has committed its adversarial candidate
C2_Witness ==
    /\ pc = "loop"
    /\ binary_search_step >= 1
    /\ \E i \in Batch :
        /\ ever_adv[i]
        /\ x_adv[i] # XOrig
        /\ x_adv[i] = x[i]

\* C3: lower_bound[i] starts at 0 and never decreases, upper_bound[i] starts
\* at INFTY and never increases, and lower_bound[i] <= upper_bound[i] once
\* upper_bound[i] is no longer INFTY.
C3_Monotonicity ==
    /\ [](\A i \in Batch :
            /\ binary_search_step = Unbound =>
                   lower_bound[i] = 0 /\ upper_bound[i] = INFTY
            /\ upper_bound[i] # INFTY => lower_bound[i] <= upper_bound[i])
    /\ [][\A i \in Batch :
            /\ lower_bound'[i] >= lower_bound[i]
            /\ upper_bound'[i] <= upper_bound[i]]_vars

\* three rounds have moved the lower bound, then the upper, then the lower
\* bound again
C3_Witness ==
    \E i \in Batch :
        /\ binary_search_step >= 2
        /\ pc = "loop"
        /\ initial_const * Scale < lower_bound[i]
        /\ lower_bound[i] < upper_bound[i]
        /\ upper_bound[i] # INFTY

\* C4: a call with a guide_mode other than 1 and 2 ends in a ValueError, with
\* no call made to any oracle method and no round begun.
C4_InvalidMode ==
    (guide_mode \notin {1, 2} /\ pc # "guides") =>
        /\ pc = "error"
        /\ err = "ValueError"
        /\ calls = NoCalls
        /\ binary_search_step = Unbound
        /\ opt_steps = Unbound

\* a call with guide_mode 3 that asked for rounds has failed
C4_Witness ==
    /\ guide_mode = 3
    /\ binary_search_steps >= 1
    /\ pc = "error"
    /\ err = "ValueError"

\* C5: every guide returned by either selector has a training label other
\* than the input's label, and the guides of one input are of one class.
C5_GuideLabels ==
    \A i \in Batch :
        \A j, k \in DOMAIN x_guide[i] :
            /\ y_train[x_guide[i][j]] # label[i]
            /\ y_train[x_guide[i][j]] = y_train[x_guide[i][k]]

\* mode 1 has returned guides of the later of the two classes that are not
\* the input's, the one with the strictly smaller mean distance
C5_Witness ==
    /\ guide_mode = 1
    /\ pc = "guide_reps"
    /\ num_classes = 3
    /\ \E i \in Batch :
        /\ label[i] = 0
        /\ Len(x_guide[i]) = m
        /\ y_train[x_guide[i][1]] = 2

\* C6: the update of a round gives every sample, from its own bounds and
\* constant alone: the constant as new lower bound if l2dist[i] > 0, else as
\* new upper bound; then ten times the constant if the upper bound is still
\* INFTY, else a tenth of it if the lower bound is still 0, else the mean of
\* the two bounds.
C6_UpdateRule ==
    [][pc = "update" =>
        \A i \in Batch :
            LET lb == IF l2dist[i] > 0 THEN const[i] ELSE lower_bound[i]
                ub == IF l2dist[i] > 0 THEN upper_bound[i] ELSE const[i]
            IN  /\ lower_bound'[i] = lb
                /\ upper_bound'[i] = ub
                /\ IF ub = INFTY THEN const'[i] = 10 * const[i]
                   ELSE IF lb = 0 THEN 10 * const'[i] = const[i]
                   ELSE 2 * const'[i] = lb + ub]_vars

\* two samples of one batch went different ways in the same round
C6_Witness ==
    /\ batch_size >= 2
    /\ pc = "loop"
    /\ lower_bound[0] = initial_const * Scale
    /\ const[0] = 10 * initial_const * Scale
    /\ upper_bound[1] = initial_const * Scale
    /\ 10 * const[1] = initial_const * Scale

\* the iteration is a checkpoint of the abort test
AtCheckpoint == abort_early /\ IsCheckpoint(iteration, max_iterations)

C8_ShortGuideSet_Stated ==
    \A i \in Batch :
        (guide_mode = 1 /\ nearest_label[i] # Unbound
            /\ ClassSize(nearest_label[i]) >= 1
            /\ ClassSize(nearest_label[i]) < m) =>
                /\ pc # "error"
                /\ Len(x_guide[i]) = ClassSize(nearest_label[i])
                /\ Range(x_guide[i]) =
                       {t \in 1 .. Len(y_train) : y_train[t] = nearest_label[i]}

\* C9: every round starts from a fresh z_delta (zero unless random_start), an
\* optimiser that has taken no step and the checkpoint loss INFTY; and once
\* computed, the guides and their representations never change.
C9_NoStateLeak ==
    [][/\ binary_search_step' # binary_search_step =>
            /\ opt_steps' = 0
            /\ loss_at_previous_check' = INFTY
            /\ iteration' = 0
            /\ ~random_start => \A i \in Batch : z_delta'[i] = 0
       /\ pc \notin {"guides", "guide_reps"} =>
            UNCHANGED <<x_guide, guide_reps>>]_vars

\* a second round has begun from a zero z_delta, after a first round whose
\* optimiser had moved the candidate away from x_recon
C9_Witness ==
    /\ pc = "inner"
    /\ binary_search_step = 1
    /\ iteration = 0
    /\ opt_steps = 0
    /\ ~random_start
    /\ abort_early
    /\ loss_at_previous_check = INFTY
    /\ \A i \in Batch : z_delta[i] = 0 /\ x[i] # XRecon /\ x[i] # Unbound

\* C10: in every state 0 <= lower_bound[i] <= const[i] <= upper_bound[i],
\* an upper bound of INFTY counting as infinite.
C10_Bracket ==
    \A i \in Batch :
        /\ 0 <= lower_bound[i]
        /\ lower_bound[i] <= const[i]
        /\ upper_bound[i] = INFTY \/ const[i] <= upper_bound[i]

\* a bisected constant strictly between two bounds that have both moved
C10_Witness ==
    \E i \in Batch :
        /\ 0 < lower_bound[i]
        /\ lower_bound[i] < const[i]
        /\ const[i] < upper_bound[i]
        /\ upper_bound[i] # INFTY
====
